---------------------------- MODULE Spec2Model ----------------------------
(***************************************************************************)
(* A model of est_egg: the markdown reader (markdown_file_reader.py), the  *)
(* analyst agent's markdown entry point (software_analyst_agent.py) and    *)
(* the two-pass feature estimator (feature_estimation.py).                 *)
(*                                                                         *)
(* Text is a sequence of one-character strings, so that splitting,         *)
(* stripping, lower-casing and the regular expressions are computed the    *)
(* way the Python code computes them.                                      *)
(***************************************************************************)
EXTENDS Integers, Sequences, FiniteSets, TLC

VARIABLES
    content,        \* the text of the markdown document
    file_exists,    \* os.path.exists(file_path)
    pc,             \* position of the running operation
    op,             \* the operation that ran
    sections,       \* value returned by extract_sections
    list_items,     \* extract_requirements' list after its first loop (line 85)
    requirements,   \* value returned by extract_requirements
    result,         \* value returned (or exception raised) by the operation
    files_opened,   \* number of open() calls made
    agent_calls,    \* the inputs handed to agent.run, in call order
    feature_dict,   \* flattened parent -> children map, in insertion order
    all_estimates,  \* estimate_from_markdown's all_estimates, in insertion order
    idx,            \* loop position <<parent index, child index>> of the estimator
    report,         \* generate_report: the strings written to the report file
    tree,           \* the heading-tree builder's nodes, open stack and buffers
    session         \* the web UI: st.session_state and what the last run rendered

vars == <<content, file_exists, pc, op, sections, list_items, requirements, result,
          files_opened, agent_calls, feature_dict, all_estimates, idx,
          report, tree, session>>

\* The variables of the report writer, the tree builder and the web UI.
others == <<report, tree, session>>

\* Their values while the operation they belong to has not run.
NoReport == <<>>

NoTree == [nodes |-> <<>>]

NoSession == [analysis_results |-> [kind |-> "None"]]

(***************************************************************************)
(* Text primitives                                                         *)
(***************************************************************************)

\* A string literal as a sequence of characters.
Chars(s) == [i \in 1..Len(s) |-> SubSeq(s, i, i)]

\* The characters Python's \s and str.strip() treat as whitespace.
Whitespace == {" ", "\t", "\n"}

NL == "\n"

Min(S) == CHOOSE x \in S : \A y \in S : x <= y

Max(S) == CHOOSE x \in S : \A y \in S : x >= y

\* s[i..] (1-based), empty when i is past the end.
From(s, i) == SubSeq(s, i, Len(s))

\* Number of leading characters of s, starting at position i, that are in set C.
Run(s, i, C) ==
    LET stops == {k \in i..Len(s) : s[k] \notin C}
    IN  IF stops = {} THEN Len(s) - i + 1 ELSE Min(stops) - i

\* str.split('\n')
RECURSIVE split(_)
split(s) ==
    LET nls == {i \in 1..Len(s) : s[i] = NL}
    IN  IF nls = {} THEN <<s>>
        ELSE <<SubSeq(s, 1, Min(nls) - 1)>> \o split(From(s, Min(nls) + 1))

\* sep.join(parts)
RECURSIVE join(_, _)
join(sep, parts) ==
    IF parts = <<>> THEN <<>>
    ELSE IF Len(parts) = 1 THEN parts[1]
    ELSE parts[1] \o sep \o join(sep, Tail(parts))

\* str.strip()
strip(s) ==
    LET keep == {i \in 1..Len(s) : s[i] \notin Whitespace}
    IN  IF keep = {} THEN <<>> ELSE SubSeq(s, Min(keep), Max(keep))

UpperAZ == Chars("ABCDEFGHIJKLMNOPQRSTUVWXYZ")

LowerAZ == Chars("abcdefghijklmnopqrstuvwxyz")

\* str.lower()
lower(s) ==
    [i \in 1..Len(s) |->
        IF \E k \in 1..26 : UpperAZ[k] = s[i]
        THEN LowerAZ[CHOOSE k \in 1..26 : UpperAZ[k] = s[i]]
        ELSE s[i]]

\* sub in s (substring test)
contains(s, sub) ==
    \E i \in 1..(Len(s) - Len(sub) + 1) : SubSeq(s, i, i + Len(sub) - 1) = sub

\* x in list
InList(x, list) == \E i \in 1..Len(list) : list[i] = x

(***************************************************************************)
(* MarkdownFileReader.extract_sections                                     *)
(***************************************************************************)

\* line.startswith('#')
StartsWithHash(line) == Len(line) >= 1 /\ line[1] = "#"

\* re.sub(r'^#+\s*', '', line).strip()
SectionTitle(line) ==
    LET h == Run(line, 1, {"#"})
        w == Run(line, h + 1, Whitespace)
    IN  strip(From(line, h + w + 1))

\* sections[key] = value on an insertion-ordered dict, kept as a sequence of
\* [title, text] items: an existing key keeps its place and takes the new value.
DictSet(d, key, value) ==
    IF \E i \in 1..Len(d) : d[i].title = key
    THEN [i \in 1..Len(d) |->
            IF d[i].title = key THEN [title |-> key, text |-> value] ELSE d[i]]
    ELSE Append(d, [title |-> key, text |-> value])

\* '\n'.join(section_content).strip()
SectionText(section_content) == strip(join(<<NL>>, section_content))

\* The loop over the lines with the heading line kept as the first line of the
\* section it opens.
RECURSIVE SectionScan_KeepsHeadingLine(_, _, _)
SectionScan_KeepsHeadingLine(lines, i, st) ==
    IF i > Len(lines) THEN st
    ELSE LET line == lines[i]
             saved == IF st.section_content # <<>>
                      THEN DictSet(st.sections, st.current_section,
                                   SectionText(st.section_content))
                      ELSE st.sections
         IN  IF StartsWithHash(line)
             THEN SectionScan_KeepsHeadingLine(lines, i + 1,
                     [sections        |-> saved,
                      current_section |-> SectionTitle(line),
                      section_content |-> <<line>>])
             ELSE SectionScan_KeepsHeadingLine(lines, i + 1,
                     [st EXCEPT !.section_content = Append(@, line)])

\* The loop over the lines; st = [sections, current_section, section_content].
RECURSIVE SectionScan(_, _, _)
SectionScan(lines, i, st) ==
    IF i > Len(lines) THEN st
    ELSE LET line == lines[i]
             saved == IF st.section_content # <<>>
                      THEN DictSet(st.sections, st.current_section,
                                   SectionText(st.section_content))
                      ELSE st.sections
         IN  IF StartsWithHash(line)
             THEN SectionScan(lines, i + 1,
                     [sections        |-> saved,
                      current_section |-> SectionTitle(line),
                      section_content |-> <<>>])
             ELSE SectionScan(lines, i + 1,
                     [st EXCEPT !.section_content = Append(@, line)])

extract_sections(text) ==
    LET st == SectionScan(split(text), 1,
                  [sections        |-> <<>>,
                   current_section |-> Chars("main"),
                   section_content |-> <<>>])
    IN  IF st.section_content # <<>>
        THEN DictSet(st.sections, st.current_section,
                     SectionText(st.section_content))
        ELSE st.sections

(***************************************************************************)
(* MarkdownFileReader.extract_requirements                                 *)
(***************************************************************************)

Bullets == {"-", "*"}

\* Whether the checkbox group \[[x ]\] matches at position i of line.
CheckboxAt(line, i) ==
    /\ i + 2 <= Len(line)
    /\ line[i] = "["
    /\ line[i + 1] \in {"x", " "}
    /\ line[i + 2] = "]"

\* re.match(r'^\s*[-*]\s*(?:\[[x ]\])?\s*(.+)$', line): the first alternative,
\* in the order the backtracking matcher tries them, that leaves (.+) at least
\* one character.  Each quantifier is greedy: the longer run of whitespace and
\* the present checkbox are tried first.  A candidate is <<w1, cb, w2>>: the
\* whitespace taken after the bullet, whether the checkbox group matched, the
\* whitespace taken after it.
list_match(line) ==
    LET lead == Run(line, 1, Whitespace)
        b    == lead + 1
        cands ==
            {c \in (0..Len(line)) \X BOOLEAN \X (0..Len(line)) :
                /\ c[1] <= Run(line, b + 1, Whitespace)
                /\ c[2] => CheckboxAt(line, b + 1 + c[1])
                /\ c[3] <= Run(line, b + 1 + c[1] + (IF c[2] THEN 3 ELSE 0),
                               Whitespace)
                /\ b + c[1] + (IF c[2] THEN 3 ELSE 0) + c[3] < Len(line)}
        Before(c, d) ==
            \/ c[1] > d[1]
            \/ c[1] = d[1] /\ c[2] /\ ~d[2]
            \/ c[1] = d[1] /\ c[2] = d[2] /\ c[3] >= d[3]
        first == CHOOSE c \in cands : \A d \in cands : Before(c, d)
    IN  IF b > Len(line) \/ line[b] \notin Bullets \/ cands = {}
        THEN [matched |-> FALSE, group |-> <<>>]
        ELSE [matched |-> TRUE,
              group   |-> From(line, b + 1 + first[1]
                                     + (IF first[2] THEN 3 ELSE 0) + first[3])]

\* The first loop: list_match.group(1).strip() of every matching line.
RECURSIVE ListItems(_)
ListItems(lines) ==
    IF lines = <<>> THEN <<>>
    ELSE LET m == list_match(Head(lines))
         IN  (IF m.matched THEN <<strip(m.group)>> ELSE <<>>)
                 \o ListItems(Tail(lines))

Keywords ==
    <<Chars("requirement"), Chars("feature"), Chars("user story"), Chars("spec")>>

\* The keyword test without the lower-casing of the title.
HasKeyword_CaseSensitive(title) ==
    \E k \in 1..Len(Keywords) : contains(title, Keywords[k])

\* any(keyword in title.lower() for keyword in [...])
HasKeyword(title) ==
    \E k \in 1..Len(Keywords) : contains(lower(title), Keywords[k])

\* The second loop: the keyword sections' texts, unless empty or already there.
RECURSIVE AddSections(_, _)
AddSections(reqs, secs) ==
    IF secs = <<>> THEN reqs
    ELSE LET s == Head(secs)
         IN  IF HasKeyword(s.title) /\ s.text # <<>> /\ ~InList(s.text, reqs)
             THEN AddSections(Append(reqs, s.text), Tail(secs))
             ELSE AddSections(reqs, Tail(secs))

extract_requirements(text) ==
    AddSections(ListItems(split(text)), extract_sections(text))

(***************************************************************************)
(* MarkdownFileReader.read_file and SoftwareAnalystAgent                   *)
(***************************************************************************)

\* SoftwareAnalystAgent.analyze_from_text: the input handed to agent.run.
AnalysisInput(requirement_text) == [requirement |-> requirement_text]

\* What agent.run can do: return a structured result, or raise (an LLM failure).
AgentOutcomes == {"returned", "raised"}

\* The task breakdowns a structured result of the LLM is drawn from.
AgentBreakdowns == {<<>>, <<"task">>}

\* The value the except branch of analyze_from_markdown returns.
FailureResult ==
    [kind |-> "failed_to_analyze", task_breakdown |-> <<>>,
     mermaid_task_diagram |-> <<>>, mermaid_erd_diagram |-> <<>>]

\* "\n\n".join(requirements)
RequirementText(reqs) == join(<<NL, NL>>, reqs)

(***************************************************************************)
(* Input documents                                                         *)
(***************************************************************************)

\* Longest document, in lines, of the reader specification.
MaxLines == 3

\* Longest document, in lines, of the section specification.
MaxSecLines == 6

\* The lines the documents of the reader specification are made of: list
\* items (plain, checkbox, checkbox without text, nested), a horizontal rule,
\* emphasis, headings (keyword, no keyword, no space after the marker), plain
\* text and the blank line.
LinePool ==
    {Chars("- a"), Chars("* [x] b"), Chars("- [ ]"), Chars("  - c"),
     Chars("---"), Chars("**b**"), Chars("# Spec"), Chars("## Notes"),
     Chars("#tag"), Chars("text"), <<>>}

\* The lines of the section specification: two keyword headings, two bodies.
SecLinePool ==
    {Chars("# spec"), Chars("# feature"), Chars("a"), Chars("b")}

Documents(pool, n) ==
    {join(<<NL>>, ls) : ls \in UNION {[1..k -> pool] : k \in 0..n}}

\* The example document of the specification's testable property 6.
ExampleDoc ==
    join(<<NL>>,
         <<Chars("# Feature A"), Chars("Some text."), Chars("## Sub A1"),
           Chars("- [ ] Task one"), Chars("- Task two"), Chars("## Sub A2"),
           Chars("Body A2."), Chars("# Feature B"),
           Chars("Requirements: must support login.")>>)

NoResult == [kind |-> "none"]

(***************************************************************************)
(* The reader and the analyst as operations on one document                *)
(***************************************************************************)

Idle ==
    /\ pc = "start"
    /\ op = "none"
    /\ sections = <<>>
    /\ list_items = <<>>
    /\ requirements = <<>>
    /\ result = NoResult
    /\ files_opened = 0
    /\ agent_calls = <<>>
    /\ feature_dict = <<>>
    /\ all_estimates = <<>>
    /\ idx = <<0, 0>>
    /\ report = NoReport
    /\ tree = NoTree
    /\ session = NoSession

Init ==
    /\ content \in Documents(LinePool, MaxLines) \cup {ExampleDoc}
    /\ file_exists \in BOOLEAN
    /\ Idle

InitSec ==
    /\ content \in Documents(SecLinePool, MaxSecLines)
    /\ file_exists \in BOOLEAN
    /\ Idle

\* MarkdownFileReader.read_file(file_path)
ReadFile ==
    /\ pc = "start"
    /\ pc' = "done"
    /\ op' = "read_file"
    /\ IF file_exists
       THEN /\ files_opened' = files_opened + 1
            /\ result' = [kind |-> "text", value |-> content]
       ELSE /\ files_opened' = files_opened
            /\ result' = [kind |-> "FileNotFoundError"]
    /\ UNCHANGED <<content, file_exists, sections, list_items, requirements,
                   agent_calls, feature_dict, all_estimates, idx, others>>

\* MarkdownFileReader.extract_sections(content)
ExtractSections ==
    /\ pc = "start"
    /\ pc' = "done"
    /\ op' = "extract_sections"
    /\ sections' = extract_sections(content)
    /\ result' = [kind |-> "returned"]
    /\ UNCHANGED <<content, file_exists, list_items, requirements,
                   files_opened, agent_calls, feature_dict, all_estimates, idx,
                   others>>

\* MarkdownFileReader.extract_requirements(content)
ExtractRequirements ==
    /\ pc = "start"
    /\ pc' = "done"
    /\ op' = "extract_requirements"
    /\ sections' = extract_sections(content)
    /\ list_items' = ListItems(split(content))
    /\ requirements' = extract_requirements(content)
    /\ result' = [kind |-> "returned"]
    /\ UNCHANGED <<content, file_exists, files_opened, agent_calls,
                   feature_dict, all_estimates, idx, others>>

\* analyze_from_markdown without the missing-file branch: the requirements of
\* a missing file are taken as empty and analysed all the same.
AnalyzeFromMarkdown_NoNotFound ==
    /\ pc = "start"
    /\ pc' = "done"
    /\ op' = "analyze_from_markdown"
    /\ files_opened' = files_opened + 1
    /\ sections' = IF file_exists THEN extract_sections(content) ELSE <<>>
    /\ list_items' = IF file_exists THEN ListItems(split(content)) ELSE <<>>
    /\ requirements' = IF file_exists THEN extract_requirements(content) ELSE <<>>
    /\ agent_calls' =
           Append(agent_calls, AnalysisInput(RequirementText(requirements')))
    /\ \E outcome \in AgentOutcomes, breakdown \in AgentBreakdowns :
           result' = IF outcome = "returned"
                     THEN [kind |-> "analysis", task_breakdown |-> breakdown]
                     ELSE [kind |-> "agent_error"]
    /\ UNCHANGED <<content, file_exists, feature_dict, all_estimates, idx,
                   others>>

\* SoftwareAnalystAgent.analyze_from_markdown(file_path)
AnalyzeFromMarkdown ==
    /\ pc = "start"
    /\ pc' = "done"
    /\ op' = "analyze_from_markdown"
    /\ IF file_exists
       THEN /\ files_opened' = files_opened + 1
            /\ sections' = extract_sections(content)
            /\ list_items' = ListItems(split(content))
            /\ requirements' = extract_requirements(content)
            /\ agent_calls' =
                   Append(agent_calls,
                          AnalysisInput(RequirementText(requirements')))
            /\ \E outcome \in AgentOutcomes, breakdown \in AgentBreakdowns :
                   result' = IF outcome = "returned"
                             THEN [kind |-> "analysis",
                                   task_breakdown |-> breakdown]
                             ELSE [kind |-> "agent_error"]
       ELSE \* read_file raises FileNotFoundError: the except branch
            /\ files_opened' = files_opened
            /\ result' = FailureResult
            /\ UNCHANGED <<sections, list_items, requirements, agent_calls>>
    /\ UNCHANGED <<content, file_exists, feature_dict, all_estimates, idx,
                   others>>

Next ==
    \/ ReadFile
    \/ ExtractSections
    \/ ExtractRequirements
    \/ AnalyzeFromMarkdown

Spec == Init /\ [][Next]_vars

SpecSec == InitSec /\ [][Next]_vars

(***************************************************************************)
(* FeatureEstimator (feature_estimation.py)                                *)
(***************************************************************************)

\* Optional[...] arguments: None, or a value.
None == [none |-> TRUE]

Some(v) == [none |-> FALSE, value |-> v]

\* Python truthiness of an optional string or list: not None and not empty.
Truthy(o) == ~o.none /\ o.value # <<>>

RECURSIVE ParentTitle(_)

\* The literal pieces of the f-strings of estimate_feature.
ContextLabel == Chars("\n\nContext: ")

ContextBase == Chars("This is a feature")

ParentClause == Chars(" that belongs to the parent feature: ")

ChildrenClause == Chars(". It has the following child features: ")

CommaSpace == Chars(", ")

\* estimate_feature with the parent clause of the context left out.
estimate_feature_NoParentContext(feature_text, parent_feature, child_features) ==
    feature_text \o ContextLabel \o ContextBase
        \o (IF Truthy(child_features)
            THEN ChildrenClause \o join(CommaSpace, child_features.value)
            ELSE <<>>)

\* FeatureEstimator.estimate_feature: the requirement text handed to agent.run.
estimate_feature(feature_text, parent_feature, child_features) ==
    LET context ==
            ContextBase
            \o (IF Truthy(parent_feature)
                THEN ParentClause \o parent_feature.value
                ELSE <<>>)
            \o (IF Truthy(child_features)
                THEN ChildrenClause \o join(CommaSpace, child_features.value)
                ELSE <<>>)
    IN  feature_text \o ContextLabel \o context

\* FeatureEstimate(feature=..., parent_feature=..., estimate=..., children=[])
FeatureEstimate(feature, parent_feature, estimate) ==
    [feature |-> feature, parent_feature |-> parent_feature,
     estimate |-> estimate, children |-> <<>>]

\* all_estimates[key] = value on the insertion-ordered dict all_estimates.
EstimatesSet(d, key, value) ==
    IF \E i \in 1..Len(d) : d[i].key = key
    THEN [i \in 1..Len(d) |->
            IF d[i].key = key THEN [key |-> key, value |-> value] ELSE d[i]]
    ELSE Append(d, [key |-> key, value |-> value])

\* The append reaching the children list of every entry, as with one list
\* object shared by all the entries.
EstimatesAppendChild_SharedList(d, key, child) ==
    [i \in 1..Len(d) |-> [d[i] EXCEPT !.value.children = Append(@, child)]]

\* all_estimates[key].children.append(child)
EstimatesAppendChild(d, key, child) ==
    [i \in 1..Len(d) |->
        IF d[i].key = key
        THEN [d[i] EXCEPT !.value.children = Append(@, child)]
        ELSE d[i]]

\* Most parents of a flattened map, and most children of one parent.
MaxParents == 2

MaxChildren == 2

\* The i-th parent's title: the keys of a dict, so they differ.
ParentTitle(i) == <<"P">> \o (IF i > 1 THEN ParentTitle(i - 1) ELSE <<>>)

\* A child may carry the title of a parent (its own, an earlier or a later one).
ChildTitles == {ParentTitle(2), Chars("A1")}

\* The flattened maps, in insertion order.
FeatureDicts ==
    LET ChildLists == UNION {[1..k -> ChildTitles] : k \in 0..MaxChildren}
    IN  UNION {{[i \in 1..n |-> [parent |-> ParentTitle(i), children |-> c[i]]] :
                   c \in [1..n -> ChildLists]} : n \in 0..MaxParents}

InitEst ==
    /\ feature_dict \in FeatureDicts
    /\ content = <<>>
    /\ file_exists = TRUE
    /\ pc = "parents"
    /\ op = "estimate_from_markdown"
    /\ sections = <<>>
    /\ list_items = <<>>
    /\ requirements = <<>>
    /\ result = NoResult
    /\ files_opened = 0
    /\ agent_calls = <<>>
    /\ all_estimates = <<>>
    /\ idx = <<1, 1>>
    /\ report = NoReport
    /\ tree = NoTree
    /\ session = NoSession

EstFrame == UNCHANGED <<content, file_exists, op, sections, list_items,
                        requirements, files_opened, feature_dict, others>>

\* The first pass with a parent that has no children passed over: no call
\* and no entry for it.
EstimateParent_SkipsChildless ==
    /\ pc = "parents"
    /\ idx[1] <= Len(feature_dict)
    /\ LET parent   == feature_dict[idx[1]].parent
           children == feature_dict[idx[1]].children
           call     == [site |-> "parent",
                        requirement |->
                            estimate_feature(parent, None, Some(children))]
       IN  IF children = <<>>
           THEN /\ idx' = <<idx[1] + 1, 1>>
                /\ UNCHANGED <<pc, result, agent_calls, all_estimates>>
           ELSE /\ agent_calls' = Append(agent_calls, call)
                /\ \E outcome \in AgentOutcomes :
                       IF outcome = "returned"
                       THEN /\ all_estimates' =
                                   EstimatesSet(all_estimates, parent,
                                       FeatureEstimate(parent, None,
                                           [call |-> Len(agent_calls')]))
                            /\ idx' = <<idx[1] + 1, 1>>
                            /\ UNCHANGED <<pc, result>>
                       ELSE /\ pc' = "raised"
                            /\ result' = [kind |-> "agent_error"]
                            /\ UNCHANGED <<all_estimates, idx>>
    /\ EstFrame

\* First pass, one iteration (lines 59-66): estimate a parent feature.
EstimateParent ==
    /\ pc = "parents"
    /\ idx[1] <= Len(feature_dict)
    /\ LET parent   == feature_dict[idx[1]].parent
           children == feature_dict[idx[1]].children
           call     == [site |-> "parent",
                        requirement |->
                            estimate_feature(parent, None, Some(children))]
       IN  /\ agent_calls' = Append(agent_calls, call)
           /\ \E outcome \in AgentOutcomes :
                  IF outcome = "returned"
                  THEN /\ all_estimates' =
                              EstimatesSet(all_estimates, parent,
                                  FeatureEstimate(parent, None,
                                      [call |-> Len(agent_calls')]))
                       /\ idx' = <<idx[1] + 1, 1>>
                       /\ UNCHANGED <<pc, result>>
                  ELSE /\ pc' = "raised"
                       /\ result' = [kind |-> "agent_error"]
                       /\ UNCHANGED <<all_estimates, idx>>
    /\ EstFrame

\* The first loop is exhausted: the second pass starts (line 69).
StartChildPass ==
    /\ pc = "parents"
    /\ idx[1] > Len(feature_dict)
    /\ pc' = "children"
    /\ idx' = <<1, 1>>
    /\ UNCHANGED <<agent_calls, all_estimates, result>>
    /\ EstFrame

\* Second pass, one iteration of the inner loop (lines 70-78).
EstimateChild ==
    /\ pc = "children"
    /\ idx[1] <= Len(feature_dict)
    /\ idx[2] <= Len(feature_dict[idx[1]].children)
    /\ LET parent == feature_dict[idx[1]].parent
           child  == feature_dict[idx[1]].children[idx[2]]
           call   == [site |-> "child",
                      requirement |->
                          estimate_feature(child, Some(parent), None)]
       IN  /\ agent_calls' = Append(agent_calls, call)
           /\ \E outcome \in AgentOutcomes :
                  IF outcome = "returned"
                  THEN /\ all_estimates' =
                              EstimatesAppendChild(all_estimates, parent,
                                  FeatureEstimate(child, Some(parent),
                                      [call |-> Len(agent_calls')]))
                       /\ idx' = <<idx[1], idx[2] + 1>>
                       /\ UNCHANGED <<pc, result>>
                  ELSE /\ pc' = "raised"
                       /\ result' = [kind |-> "agent_error"]
                       /\ UNCHANGED <<all_estimates, idx>>
    /\ EstFrame

\* The inner loop is exhausted: the outer loop takes the next parent (line 69).
NextParent ==
    /\ pc = "children"
    /\ idx[1] <= Len(feature_dict)
    /\ idx[2] > Len(feature_dict[idx[1]].children)
    /\ idx' = <<idx[1] + 1, 1>>
    /\ UNCHANGED <<pc, agent_calls, all_estimates, result>>
    /\ EstFrame

\* return all_estimates (line 80)
ReturnEstimates ==
    /\ pc = "children"
    /\ idx[1] > Len(feature_dict)
    /\ pc' = "done"
    /\ result' = [kind |-> "returned"]
    /\ UNCHANGED <<agent_calls, all_estimates, idx>>
    /\ EstFrame

NextEst ==
    \/ EstimateParent
    \/ StartChildPass
    \/ EstimateChild
    \/ NextParent
    \/ ReturnEstimates

SpecEst == InitEst /\ [][NextEst]_vars

(***************************************************************************)
(* The document as the specification reads it: headings are the lines      *)
(* matching ^#+\s+.+ , a section is a heading with the text up to the next *)
(* heading, a top-level list item is a bullet at column 1 followed by      *)
(* whitespace.                                                             *)
(***************************************************************************)

Done(o) == pc = "done" /\ op = o

\* ^#+\s+.+
IsHeadingLine(line) ==
    LET h == Run(line, 1, {"#"})
    IN  h >= 1 /\ Run(line, h + 1, Whitespace) >= 1 /\ Len(line) >= h + 2

HeadingTitle(line) == strip(From(line, Run(line, 1, {"#"}) + 1))

\* The sections of a document, in document order, each with its whole body.
DocSections(text) ==
    LET lines == split(text)
        H     == {i \in 1..Len(lines) : IsHeadingLine(lines[i])}
        at(k) == CHOOSE h \in H : Cardinality({j \in H : j < h}) = k - 1
        nxt(h) == Min({j \in H : j > h} \cup {Len(lines) + 1})
    IN  [k \in 1..Cardinality(H) |->
            [title |-> HeadingTitle(lines[at(k)]),
             body  |-> strip(join(<<NL>>, SubSeq(lines, at(k) + 1, nxt(at(k)) - 1)))]]

KeywordTitled(sec) ==
    \E k \in 1..Len(Keywords) : contains(lower(sec.title), Keywords[k])

\* The sections with a keyword title and a body that is not empty.
KeywordSections(text) ==
    LET Selected(sec) == KeywordTitled(sec) /\ sec.body # <<>>
    IN  SelectSeq(DocSections(text), Selected)

RECURSIVE IsSubsequence(_, _)
IsSubsequence(a, b) ==
    IF a = <<>> THEN TRUE
    ELSE IF b = <<>> THEN FALSE
    ELSE IF Head(a) = Head(b) THEN IsSubsequence(Tail(a), Tail(b))
    ELSE IsSubsequence(a, Tail(b))

IsTopLevelItem(line) ==
    Len(line) >= 2 /\ line[1] \in Bullets /\ line[2] \in Whitespace

\* A list item at any indentation.
IsListItem(line) == IsTopLevelItem(From(line, Run(line, 1, Whitespace) + 1))

\* Where the text of a top-level item starts, and whether a checkbox precedes it.
ItemHasCheckbox(line) == CheckboxAt(line, 2 + Run(line, 2, Whitespace))

ItemText(line) ==
    LET p == 2 + Run(line, 2, Whitespace)
    IN  strip(From(line, IF ItemHasCheckbox(line) THEN p + 3 ELSE p))

StartsWithMarker(frag, line) ==
    \/ frag # <<>> /\ frag[1] = line[1]
    \/ ItemHasCheckbox(line) /\ CheckboxAt(frag, 1)

(***************************************************************************)
(* Claims about extract_requirements and extract_sections                  *)
(***************************************************************************)

\* C2: the sequence returned by extract_requirements is the list-item
\* fragments in document order followed by the appended keyword-section
\* bodies in the order their sections appear in the document.
C2_ListItemsThenSectionsInDocumentOrder ==
    Done("extract_requirements") =>
        LET n    == Len(list_items)
            secs == KeywordSections(content)
        IN  /\ n <= Len(requirements)
            /\ SubSeq(requirements, 1, n) = list_items
            /\ IsSubsequence(From(requirements, n + 1),
                             [k \in 1..Len(secs) |-> secs[k].body])

\* C3: the whole body of every keyword-titled section (with a body that is
\* not empty) is in the sequence returned by extract_requirements, also when
\* two sections carry the same title.
C3_EveryKeywordSectionBodyReturned ==
    Done("extract_requirements") =>
        \A k \in 1..Len(KeywordSections(content)) :
            InList(KeywordSections(content)[k].body, requirements)

\* C4: when two keyword-titled sections have the same (non-empty) body, the
\* body is in the returned sequence exactly once, and every section body
\* returned before it belongs to a section before the first of the two.
C4_IdenticalBodiesOnceAtFirstSection ==
    Done("extract_requirements") =>
        LET secs == KeywordSections(content)
        IN  \A p, q \in 1..Len(secs) :
                (p < q /\ secs[p].body = secs[q].body
                       /\ \A r \in 1..(p - 1) : secs[r].body # secs[p].body)
                => LET at == {k \in 1..Len(requirements) :
                                 requirements[k] = secs[p].body}
                   IN  /\ Cardinality(at) = 1
                       /\ \A k \in (Len(list_items) + 1)..(Min(at) - 1) :
                              \E r \in 1..(p - 1) : secs[r].body = requirements[k]

ExampleRan == content = ExampleDoc /\ Done("extract_requirements")

\* C5 as stated: for the example document extract_requirements returns
\* exactly ["Task one", "Task two"].
C5_ExampleYieldsOnlyListItems ==
    ExampleRan => requirements = <<Chars("Task one"), Chars("Task two")>>

\* C5, amended: for the example document extract_requirements returns the two
\* list items followed by the bodies of "Feature A" and "Feature B", whose
\* titles contain the keyword "feature".
C5_ExampleYieldsListItemsAndFeatureBodies ==
    ExampleRan =>
        requirements = <<Chars("Task one"), Chars("Task two"),
                         Chars("Some text."),
                         Chars("Requirements: must support login.")>>

C5_Witness == ExampleRan /\ Len(requirements) = 4

\* C6: every top-level list-item line yields one fragment, equal to the
\* item's text with the bullet and the checkbox marker stripped and trimmed,
\* and the fragment does not begin with the bullet or the checkbox marker.
C6_ItemFragmentIsStrippedText ==
    Done("extract_requirements") =>
        LET lines == split(content)
        IN  \A i \in 1..Len(lines) :
                IsTopLevelItem(lines[i]) =>
                    LET k == Cardinality({j \in 1..i : list_match(lines[j]).matched})
                    IN  /\ list_match(lines[i]).matched
                        /\ k <= Len(list_items)
                        /\ list_items[k] = ItemText(lines[i])
                        /\ ~StartsWithMarker(list_items[k], lines[i])

\* C7: the list-item pass yields fragments only for top-level list-item
\* lines: it yields no more fragments than the document has such lines.
C7_FragmentsOnlyForTopLevelItems ==
    Done("extract_requirements") =>
        LET lines == split(content)
        IN  Len(list_items)
                <= Cardinality({i \in 1..Len(lines) : IsTopLevelItem(lines[i])})

\* C8: a line of '#' characters not followed by whitespace is not a heading
\* for the heading split: it stays in the text of a section and its text
\* does not become a section title.
C8_MalformedHeadingStaysInBody ==
    Done("extract_sections") =>
        LET lines == split(content)
        IN  \A i \in 1..Len(lines) :
                (StartsWithHash(lines[i]) /\ ~IsHeadingLine(lines[i])) =>
                    /\ \E k \in 1..Len(sections) :
                           contains(sections[k].text, lines[i])
                    /\ \/ \E j \in 1..Len(lines) :
                              /\ IsHeadingLine(lines[j])
                              /\ HeadingTitle(lines[j]) = SectionTitle(lines[i])
                       \/ \A k \in 1..Len(sections) :
                              sections[k].title # SectionTitle(lines[i])

MissingFileAnalysed == Done("analyze_from_markdown") /\ ~file_exists

\* C9: when the path does not exist, read_file fails with FileNotFoundError
\* without opening anything, and analyze_from_markdown returns the substitute
\* failure result, with an empty task breakdown, without calling the agent.
C9_MissingFileFailsWithoutAgent ==
    /\ (Done("read_file") /\ ~file_exists) =>
           (result.kind = "FileNotFoundError" /\ files_opened = 0)
    /\ MissingFileAnalysed =>
           /\ result.kind = "failed_to_analyze"
           /\ result.task_breakdown = <<>>
           /\ files_opened = 0
           /\ agent_calls = <<>>

C9_Witness == MissingFileAnalysed /\ result = FailureResult

\* C10: for a document with no list-item line and no keyword-titled section
\* with a non-empty body, extract_requirements returns the empty sequence
\* and raises nothing.
C10_NothingToExtractGivesEmpty ==
    (/\ Done("extract_requirements")
     /\ \A i \in 1..Len(split(content)) : ~IsListItem(split(content)[i])
     /\ KeywordSections(content) = <<>>)
    => (requirements = <<>> /\ result.kind = "returned")

(***************************************************************************)
(* Claims about FeatureEstimator                                           *)
(***************************************************************************)

\* The <<parent, child>> pairs of a flattened map, in iteration order.
RECURSIVE ChildPairs(_)
ChildPairs(d) ==
    IF d = <<>> THEN <<>>
    ELSE [j \in 1..Len(Head(d).children) |->
             <<Head(d).parent, Head(d).children[j]>>] \o ChildPairs(Tail(d))

ContextOf(requirement, feature) ==
    From(requirement, Len(feature) + Len(ContextLabel) + 1)

\* C1: every parent estimation call is made before any child estimation
\* call; the k-th call is for the k-th parent and its context names that
\* parent's child titles and no parent; each later call is for the next
\* child in the map's order and its context names its own parent's title and
\* no child titles.
C1_ParentsBeforeChildrenWithContext ==
    LET n     == Len(feature_dict)
        pairs == ChildPairs(feature_dict)
    IN  /\ Len(agent_calls) <= n + Len(pairs)
        /\ \A k \in 1..Len(agent_calls) :
              LET call == agent_calls[k]
              IN  IF k <= n
                  THEN LET parent   == feature_dict[k].parent
                           children == feature_dict[k].children
                           context  == ContextOf(call.requirement, parent)
                       IN  /\ call.site = "parent"
                           /\ SubSeq(call.requirement, 1, Len(parent)) = parent
                           /\ ~contains(context, ParentClause)
                           /\ context = ContextBase
                                  \o (IF children # <<>>
                                      THEN ChildrenClause
                                               \o join(CommaSpace, children)
                                      ELSE <<>>)
                  ELSE LET parent  == pairs[k - n][1]
                           child   == pairs[k - n][2]
                           context == ContextOf(call.requirement, child)
                       IN  /\ call.site = "child"
                           /\ SubSeq(call.requirement, 1, Len(child)) = child
                           /\ context = ContextBase \o ParentClause \o parent
                           /\ ~contains(context, ChildrenClause)

C1_Witness ==
    /\ pc = "done"
    /\ Len(feature_dict) = 2
    /\ \E k \in 1..Len(agent_calls) : agent_calls[k].site = "child"
    /\ \E i \in 1..2 : Len(feature_dict[i].children) = 2

(***************************************************************************)
(* The reader on documents with heading-like lines                         *)
(***************************************************************************)

\* Longest document, in lines, of the heading specification.
MaxHeadLines == 3

\* Its lines: two headings, a keyword line with no space after the marker,
\* a body line that quotes a heading, plain text and a list item.
HeadLinePool ==
    {Chars("# Spec"), Chars("## Notes"), Chars("#spec"), Chars("see # Spec"),
     Chars("text"), Chars("- a")}

InitHead ==
    /\ content \in Documents(HeadLinePool, MaxHeadLines)
    /\ file_exists \in BOOLEAN
    /\ Idle

SpecHead == InitHead /\ [][Next]_vars

NoHeadingLine(text) ==
    \A i \in 1..Len(split(text)) : ~IsHeadingLine(split(text)[i])

\* C11: for a document with no heading line, extract_requirements returns
\* exactly the matched list-item fragments: the text before any heading,
\* kept under the title "main", is never appended as a section body.
C11_NoHeadingGivesOnlyListItems ==
    (Done("extract_requirements") /\ NoHeadingLine(content))
        => requirements = list_items

(***************************************************************************)
(* Claims about the mapping returned by estimate_from_markdown             *)
(***************************************************************************)

\* The positions of the parent-site calls made for the feature text title.
ParentCallsFor(title) ==
    {k \in 1..Len(agent_calls) :
        /\ agent_calls[k].site = "parent"
        /\ Len(agent_calls[k].requirement) >= Len(title) + Len(ContextLabel)
        /\ SubSeq(agent_calls[k].requirement, 1, Len(title) + Len(ContextLabel))
               = title \o ContextLabel}

\* C12: when estimate_from_markdown returns, every parent title of the
\* flattened map has been estimated exactly once and has an entry in the
\* returned mapping, in the map's order, holding that estimate; a parent
\* with an empty child sequence has an entry with an empty children list.
C12_EveryParentEstimatedOnceAndReturned ==
    Done("estimate_from_markdown") =>
        /\ Len(all_estimates) = Len(feature_dict)
        /\ \A i \in 1..Len(feature_dict) :
              LET parent == feature_dict[i].parent
                  entry  == all_estimates[i]
              IN  /\ Cardinality(ParentCallsFor(parent)) = 1
                  /\ entry.key = parent
                  /\ entry.value.feature = parent
                  /\ entry.value.parent_feature = None
                  /\ entry.value.estimate.call \in ParentCallsFor(parent)
                  /\ feature_dict[i].children = <<>>
                         => entry.value.children = <<>>

C12_Witness ==
    /\ Done("estimate_from_markdown")
    /\ Len(feature_dict) = 2
    /\ feature_dict[1].children = <<>>
    /\ feature_dict[2].children # <<>>
    /\ all_estimates[1].value.children = <<>>

(***************************************************************************)
(* FeatureEstimator.generate_report                                        *)
(***************************************************************************)

\* An Optional[str] inside an f-string: None is written as "None".
Fmt(o) == IF o.none THEN Chars("None") ELSE o.value

\* The value of datetime.now().strftime(...), whatever the clock says.
Now == Chars("<now>")

\* A task of a breakdown, and an endpoint of an API analysis.
TaskModel ==
    [task_name |-> Chars("t"), difficulty |-> None,
     description |-> Some(Chars("d")), time_estimate |-> Some(Chars("1h"))]

ApiModel ==
    [method |-> Some(Chars("GET")), endpoint |-> Some(Chars("/x")),
     purpose |-> None]

\* The analyses an agent can return: the schema's defaults, a full one, and
\* one with task_breakdown null (the field is Optional).
DefaultEstimate ==
    [summary |-> None, total_estimate |-> None, task_breakdown |-> Some(<<>>),
     api_analysis |-> <<>>, risks_and_considerations |-> Some(<<>>)]

FullEstimate ==
    [summary |-> Some(Chars("s")), total_estimate |-> Some(Chars("2d")),
     task_breakdown |-> Some(<<TaskModel>>), api_analysis |-> <<ApiModel>>,
     risks_and_considerations |-> Some(<<Chars("r")>>)]

NullBreakdownEstimate ==
    [summary |-> Some(Chars("s")), total_estimate |-> None,
     task_breakdown |-> None, api_analysis |-> <<>>,
     risks_and_considerations |-> None]

EstimateModels == {DefaultEstimate, FullEstimate, NullBreakdownEstimate}

\* The writes of a block, and whether the block ran to its end: iterating
\* over a task_breakdown of None raises TypeError.
Ran(w) == [writes |-> w, ok |-> TRUE]

Broke(w) == [writes |-> w, ok |-> FALSE]

\* block a, then block b when a ran to its end
Then(a, b) == IF a.ok THEN [writes |-> a.writes \o b.writes, ok |-> b.ok] ELSE a

RECURSIVE Flat(_)
Flat(ws) == IF ws = <<>> THEN <<>> ELSE Head(ws) \o Flat(Tail(ws))

\* for x in xs: the writes of F(x), in order
Each(xs, F(_)) == Flat([i \in 1..Len(xs) |-> F(xs[i])])

\* lines 103-106
ParentTaskWrites(estimate) ==
    LET TaskWrites(task) ==
            << Chars("- **") \o task.task_name \o Chars("** (")
                   \o Fmt(task.difficulty) \o Chars("): ")
                   \o Fmt(task.description) \o <<NL>>,
               Chars("  - Estimate: ") \o Fmt(task.time_estimate) \o <<NL>> >>
    IN  IF estimate.task_breakdown.none
        THEN Broke(<<Chars("### Task Breakdown\n")>>)
        ELSE Ran(<<Chars("### Task Breakdown\n")>>
                 \o Each(estimate.task_breakdown.value, TaskWrites)
                 \o <<Chars("\n")>>)

\* lines 109-113
ApiWrites(estimate) ==
    LET ApiLine(api) ==
            << Chars("- ") \o Fmt(api.method) \o <<" ">> \o Fmt(api.endpoint)
                   \o Chars(": ") \o Fmt(api.purpose) \o <<NL>> >>
    IN  IF estimate.api_analysis # <<>>
        THEN <<Chars("### API Analysis\n")>>
                 \o Each(estimate.api_analysis, ApiLine) \o <<Chars("\n")>>
        ELSE <<>>

\* lines 115-119
RiskWrites(estimate) ==
    LET RiskLine(risk) == << Chars("- ") \o risk \o <<NL>> >>
    IN  IF Truthy(estimate.risks_and_considerations)
        THEN <<Chars("### Risks and Considerations\n")>>
                 \o Each(estimate.risks_and_considerations.value, RiskLine)
                 \o <<Chars("\n")>>
        ELSE <<>>

\* lines 124-131: one child of a parent
ChildSection(child) ==
    LET head ==
            << Chars("#### ") \o child.feature \o Chars("\n\n"),
               Chars("Summary: ") \o Fmt(child.estimate.summary) \o Chars("\n\n"),
               Chars("Time Estimate: ") \o Fmt(child.estimate.total_estimate)
                   \o Chars("\n\n"),
               Chars("Task Breakdown:\n") >>
        TaskLine(task) ==
            << Chars("- ") \o task.task_name \o Chars(" (")
                   \o Fmt(task.difficulty) \o Chars("): ")
                   \o Fmt(task.time_estimate) \o <<NL>> >>
    IN  IF child.estimate.task_breakdown.none
        THEN Broke(head)
        ELSE Ran(head \o Each(child.estimate.task_breakdown.value, TaskLine)
                      \o <<Chars("\n")>>)

RECURSIVE ChildSections(_)
\* lines 123-131: for child in parent_data.children
ChildSections(children) ==
    IF children = <<>> THEN Ran(<<>>)
    ELSE Then(ChildSection(Head(children)), ChildSections(Tail(children)))

\* lines 98-133 with the child features written before the parent's heading
ParentSection_ChildrenFirst(parent_title, parent_data) ==
    Then(IF parent_data.children # <<>>
         THEN Then(Ran(<<Chars("### Child Features\n\n")>>),
                   ChildSections(parent_data.children))
         ELSE Ran(<<>>),
    Then(Ran(<< Chars("## ") \o parent_title \o Chars("\n\n"),
                Chars("### Summary\n") \o Fmt(parent_data.estimate.summary)
                    \o Chars("\n\n"),
                Chars("### Time Estimate\n")
                    \o Fmt(parent_data.estimate.total_estimate)
                    \o Chars("\n\n") >>),
    Then(ParentTaskWrites(parent_data.estimate),
         Ran(ApiWrites(parent_data.estimate)
             \o RiskWrites(parent_data.estimate)
             \o <<Chars("---\n\n")>>))))

\* lines 98-133: one iteration of the loop over estimates.items()
ParentSection(parent_title, parent_data) ==
    Then(Ran(<< Chars("## ") \o parent_title \o Chars("\n\n"),
                Chars("### Summary\n") \o Fmt(parent_data.estimate.summary)
                    \o Chars("\n\n"),
                Chars("### Time Estimate\n")
                    \o Fmt(parent_data.estimate.total_estimate)
                    \o Chars("\n\n") >>),
    Then(ParentTaskWrites(parent_data.estimate),
    Then(Ran(ApiWrites(parent_data.estimate)
             \o RiskWrites(parent_data.estimate)),
    Then(IF parent_data.children # <<>>
         THEN Then(Ran(<<Chars("### Child Features\n\n")>>),
                   ChildSections(parent_data.children))
         ELSE Ran(<<>>),
         Ran(<<Chars("---\n\n")>>)))))

RECURSIVE ParentSections(_)
\* line 97: for parent_title, parent_data in estimates.items()
ParentSections(estimates) ==
    IF estimates = <<>> THEN Ran(<<>>)
    ELSE Then(ParentSection(Head(estimates).key, Head(estimates).value),
              ParentSections(Tail(estimates)))

\* lines 91-133: everything written inside the with block
ReportWrites(estimates) ==
    Then(Ran(<< Chars("# Feature Estimation Report\n\n"),
                Chars("Generated on: ") \o Now \o Chars("\n\n") >>),
         ParentSections(estimates))

\* Most sections (parents and children together) of a reported mapping.
MaxReportSections == 3

\* The mappings handed to generate_report, as the sections they hold in
\* order: a parent's estimate, then the estimates of its children.
ReportItems ==
    [kind : {"parent"}, title : {<<>>}, estimate : EstimateModels]
        \cup [kind : {"child"}, title : ChildTitles, estimate : EstimateModels]

RECURSIVE BuildEstimates(_, _)
BuildEstimates(items, d) ==
    IF items = <<>> THEN d
    ELSE LET it == Head(items)
         IN  BuildEstimates(Tail(items),
                 IF it.kind = "parent"
                 THEN EstimatesSet(d, ParentTitle(Len(d) + 1),
                          FeatureEstimate(ParentTitle(Len(d) + 1), None,
                                          it.estimate))
                 ELSE EstimatesAppendChild(d, d[Len(d)].key,
                          FeatureEstimate(it.title, Some(d[Len(d)].key),
                                          it.estimate)))

ReportMaps ==
    {BuildEstimates(items, <<>>) :
        items \in {s \in UNION {[1..k -> ReportItems] : k \in 0..MaxReportSections} :
                      s # <<>> => s[1].kind = "parent"}}

InitReport ==
    /\ all_estimates \in ReportMaps
    /\ report \in [dir_exists : BOOLEAN, makedirs : {0}, writes : {<<>>}]
    /\ content = <<>>
    /\ file_exists = TRUE
    /\ pc = "start"
    /\ op = "none"
    /\ sections = <<>>
    /\ list_items = <<>>
    /\ requirements = <<>>
    /\ result = NoResult
    /\ files_opened = 0
    /\ agent_calls = <<>>
    /\ feature_dict = <<>>
    /\ idx = <<0, 0>>
    /\ tree = NoTree
    /\ session = NoSession

\* FeatureEstimator.generate_report(estimates, output_dir)
GenerateReport ==
    /\ pc = "start"
    /\ op' = "generate_report"
    /\ files_opened' = files_opened + 1
    /\ LET out == ReportWrites(all_estimates)
       IN  /\ report' = [dir_exists |-> TRUE,
                         makedirs   |-> IF report.dir_exists THEN 0 ELSE 1,
                         writes     |-> out.writes]
           /\ IF out.ok
              THEN pc' = "done" /\ result' = [kind |-> "returned"]
              ELSE pc' = "raised" /\ result' = [kind |-> "type_error"]
    /\ UNCHANGED <<content, file_exists, sections, list_items, requirements,
                   agent_calls, feature_dict, all_estimates, idx, tree, session>>

NextReport == GenerateReport

SpecReport == InitReport /\ [][NextReport]_vars

(***************************************************************************)
(* Claims about the report                                                 *)
(***************************************************************************)

\* The lines of the report file that are headings of the given level.
IsLevel(line, n) == Run(line, 1, {"#"}) = n /\ Len(line) > n /\ line[n + 1] = " "

\* The parent (##) and child (####) headings of the file, in file order.
SectionHeadings ==
    LET IsSection(line) == IsLevel(line, 2) \/ IsLevel(line, 4)
    IN  SelectSeq(split(Flat(report.writes)), IsSection)

RECURSIVE HeadingsOf(_)
\* The headings the mapping calls for: each parent's, then its children's.
HeadingsOf(estimates) ==
    IF estimates = <<>> THEN <<>>
    ELSE LET e == Head(estimates)
         IN  <<Chars("## ") \o e.key>>
                 \o [j \in 1..Len(e.value.children) |->
                        Chars("#### ") \o e.value.children[j].feature]
                 \o HeadingsOf(Tail(estimates))

\* C13: generate_report writes the parent sections in the iteration order
\* of the estimates mapping, and every child section of a parent after that
\* parent's heading and before the next parent's heading, in the order of
\* the parent's children list; a report cut short by an exception holds a
\* prefix of that sequence.
C13_ReportSectionsInMappingOrder ==
    /\ Done("generate_report") => SectionHeadings = HeadingsOf(all_estimates)
    /\ (pc = "raised" /\ op = "generate_report")
           => /\ Len(SectionHeadings) <= Len(HeadingsOf(all_estimates))
              /\ SectionHeadings =
                     SubSeq(HeadingsOf(all_estimates), 1, Len(SectionHeadings))

C13_Witness ==
    /\ Done("generate_report")
    /\ Len(all_estimates) = 2
    /\ all_estimates[1].value.children # <<>>
    /\ SectionHeadings =
           << Chars("## P"),
              Chars("#### ") \o all_estimates[1].value.children[1].feature,
              Chars("## PP") >>

(***************************************************************************)
(* The heading-tree builder and the flattener of the feature parser        *)
(* (parse and flatten), as the specification's component design gives      *)
(* them.  The nodes are kept in one sequence in the order their headings   *)
(* appear; children, roots and the open stack refer to nodes by index.     *)
(***************************************************************************)

\* level = count of leading '#' characters
HeadingLevel(line) == Run(line, 1, {"#"})

\* The builder before the first line: no node, nothing open, empty preamble.
NewTree ==
    [nodes |-> <<>>, roots |-> <<>>, open |-> <<>>, preamble |-> <<>>, pos |-> 1]

\* A node just opened by a heading line.
FeatureNode(title, level) ==
    [title |-> title, level |-> level, lines |-> <<>>, body |-> <<>>,
     is_open |-> TRUE, children |-> <<>>]

\* Finalize a node's body: the accumulated lines joined by a newline, with
\* leading and trailing whitespace trimmed.
Finalize(node) ==
    [node EXCEPT !.body = strip(join(<<NL>>, node.lines)), !.is_open = FALSE]

\* Step 2 closing only the deeper nodes: an open node of the new heading's
\* own level stays open.
CloseFrom_KeepsSameLevel(t, level) ==
    LET Stays(i) == t.nodes[i].level <= level
    IN  [t EXCEPT
            !.nodes = [i \in 1..Len(t.nodes) |->
                          IF InList(i, t.open) /\ ~Stays(i)
                          THEN Finalize(t.nodes[i]) ELSE t.nodes[i]],
            !.open  = SelectSeq(t.open, Stays)]

\* Step 2: close every open node whose level is >= the new heading's level.
CloseFrom(t, level) ==
    LET Stays(i) == t.nodes[i].level < level
    IN  [t EXCEPT
            !.nodes = [i \in 1..Len(t.nodes) |->
                          IF InList(i, t.open) /\ ~Stays(i)
                          THEN Finalize(t.nodes[i]) ELSE t.nodes[i]],
            !.open  = SelectSeq(t.open, Stays)]

\* Steps 3 and 4 with a heading that finds no open ancestor left out of the
\* root sequence when the document already has a root.
Attach_OneRootOnly(t, title, level) ==
    LET n == Len(t.nodes) + 1
    IN  [t EXCEPT
            !.nodes = Append(
                IF t.open = <<>> THEN t.nodes
                ELSE [t.nodes EXCEPT ![t.open[Len(t.open)]].children =
                                         Append(@, n)],
                FeatureNode(title, level)),
            !.roots = IF t.open = <<>> /\ t.roots = <<>>
                      THEN Append(t.roots, n) ELSE t.roots,
            !.open  = Append(t.open, n)]

\* Steps 3 and 4, after step 2: the nearest still-open node (every one left
\* has a smaller level) becomes the parent, or the node joins the root
\* sequence; the new node is pushed as open.
Attach(t, title, level) ==
    LET n == Len(t.nodes) + 1
    IN  [t EXCEPT
            !.nodes = Append(
                IF t.open = <<>> THEN t.nodes
                ELSE [t.nodes EXCEPT ![t.open[Len(t.open)]].children =
                                         Append(@, n)],
                FeatureNode(title, level)),
            !.roots = IF t.open = <<>> THEN Append(t.roots, n) ELSE t.roots,
            !.open  = Append(t.open, n)]

\* A heading line: steps 1 to 4.
OpenHeading(t, line) ==
    Attach(CloseFrom(t, HeadingLevel(line)), HeadingTitle(line),
           HeadingLevel(line))

\* A non-heading line goes, verbatim, to the buffer of the deepest open node,
\* or to the preamble when no heading has appeared.
AppendLine(t, line) ==
    IF t.open = <<>>
    THEN [t EXCEPT !.preamble = Append(@, line)]
    ELSE [t EXCEPT !.nodes[t.open[Len(t.open)]].lines = Append(@, line)]

\* End of input: close all remaining open nodes.
CloseAll(t) == CloseFrom(t, 0)

\* flatten collecting, for a parent, its grandchildren along with its children
ChildTitlesOf_WithGrandchildren(t, i) ==
    LET RECURSIVE Below(_)
        Below(cs) ==
            IF cs = <<>> THEN <<>>
            ELSE <<t.nodes[Head(cs)].title>>
                     \o [j \in 1..Len(t.nodes[Head(cs)].children) |->
                            t.nodes[t.nodes[Head(cs)].children[j]].title]
                     \o Below(Tail(cs))
    IN  Below(t.nodes[i].children)

\* The titles of a node's direct children, in order.
ChildTitlesOf(t, i) ==
    [j \in 1..Len(t.nodes[i].children) |-> t.nodes[t.nodes[i].children[j]].title]

\* mapping[parent] = children on the mapping under construction: one entry
\* per title, a later parent with the same title replacing the entry.
MapSet(d, parent, children) ==
    IF \E i \in 1..Len(d) : d[i].parent = parent
    THEN [i \in 1..Len(d) |->
            IF d[i].parent = parent
            THEN [parent |-> parent, children |-> children] ELSE d[i]]
    ELSE Append(d, [parent |-> parent, children |-> children])

RECURSIVE FlattenFrom(_, _, _)
FlattenFrom(t, roots, d) ==
    IF roots = <<>> THEN d
    ELSE FlattenFrom(t, Tail(roots),
                     MapSet(d, t.nodes[Head(roots)].title,
                            ChildTitlesOf(t, Head(roots))))

\* flatten(root): the parents are the nodes of the root sequence.
flatten(t) == FlattenFrom(t, t.roots, <<>>)

\* Longest document, in lines, of the parser specification.
MaxParseLines == 4

\* Its lines: headings of three levels (two titles at the first), body
\* text, a line with no space after the marker.
ParseLinePool ==
    {Chars("# A"), Chars("# D"), Chars("## B"), Chars("### C"), Chars("text"),
     Chars("#tag")}

InitParse ==
    /\ content \in Documents(ParseLinePool, MaxParseLines) \cup {ExampleDoc}
    /\ tree = NewTree
    /\ pc = "scan"
    /\ op = "parse"
    /\ file_exists = TRUE
    /\ sections = <<>>
    /\ list_items = <<>>
    /\ requirements = <<>>
    /\ result = NoResult
    /\ files_opened = 0
    /\ agent_calls = <<>>
    /\ feature_dict = <<>>
    /\ all_estimates = <<>>
    /\ idx = <<0, 0>>
    /\ report = NoReport
    /\ session = NoSession

ParseFrame ==
    UNCHANGED <<content, file_exists, sections, list_items, requirements,
                files_opened, agent_calls, all_estimates, idx, report, session>>

\* The scan takes a heading line.
ScanHeading ==
    /\ pc = "scan"
    /\ tree.pos <= Len(split(content))
    /\ IsHeadingLine(split(content)[tree.pos])
    /\ tree' = [OpenHeading(tree, split(content)[tree.pos])
                    EXCEPT !.pos = tree.pos + 1]
    /\ UNCHANGED <<pc, op, result, feature_dict>>
    /\ ParseFrame

\* The scan takes a non-heading line.
ScanBody ==
    /\ pc = "scan"
    /\ tree.pos <= Len(split(content))
    /\ ~IsHeadingLine(split(content)[tree.pos])
    /\ tree' = [AppendLine(tree, split(content)[tree.pos])
                    EXCEPT !.pos = tree.pos + 1]
    /\ UNCHANGED <<pc, op, result, feature_dict>>
    /\ ParseFrame

\* End of input: parse returns the root sequence.
EndOfInput ==
    /\ pc = "scan"
    /\ tree.pos > Len(split(content))
    /\ tree' = CloseAll(tree)
    /\ pc' = "parsed"
    /\ result' = [kind |-> "returned"]
    /\ UNCHANGED <<op, feature_dict>>
    /\ ParseFrame

\* flatten on the parsed tree
Flatten ==
    /\ pc = "parsed"
    /\ feature_dict' = flatten(tree)
    /\ pc' = "done"
    /\ op' = "flatten"
    /\ UNCHANGED <<tree, result>>
    /\ ParseFrame

NextParse ==
    \/ ScanHeading
    \/ ScanBody
    \/ EndOfInput
    \/ Flatten

SpecParse == InitParse /\ [][NextParse]_vars

(***************************************************************************)
(* Claims about the heading tree and the flattened map                     *)
(***************************************************************************)

Parsed == pc \in {"parsed", "done"} /\ op \in {"parse", "flatten"}

\* The heading lines of the document, counted on the text.
HeadingCount(text) ==
    Cardinality({i \in 1..Len(split(text)) : IsHeadingLine(split(text)[i])})

RECURSIVE TreeSize(_, _)
\* The nodes reached from a sequence of nodes, all descendants counted.
TreeSize(t, ns) ==
    IF ns = <<>> THEN 0
    ELSE 1 + TreeSize(t, t.nodes[Head(ns)].children) + TreeSize(t, Tail(ns))

\* C14: for a document with N heading lines (lines matching ^#+\s+.+) the
\* tree parse returns has N nodes, all descendants counted.
C14_NodeCountEqualsHeadingCount ==
    Parsed => TreeSize(tree, tree.roots) = HeadingCount(content)

C14_Witness ==
    /\ Parsed
    /\ TreeSize(tree, tree.roots) = 3
    /\ Len(tree.roots) = 2
    /\ \E i \in 1..Len(tree.nodes) : tree.nodes[i].level > 1
    /\ \E k \in 1..Len(split(content)) :
          StartsWithHash(split(content)[k]) /\ ~IsHeadingLine(split(content)[k])

\* C15: after every step of the scan and in the final tree, at most one node
\* is open per heading level (the open nodes are those of the stack), every
\* direct child of a node has a level strictly greater than the node's, and
\* a node's children are in document order, after the node.
C15_OneOpenPerLevelChildrenDeeperInOrder ==
    (op \in {"parse", "flatten"}) =>
        /\ \A p, q \in 1..Len(tree.open) :
              p < q => tree.nodes[tree.open[p]].level
                           # tree.nodes[tree.open[q]].level
        /\ \A i \in 1..Len(tree.nodes) :
              /\ tree.nodes[i].is_open <=> InList(i, tree.open)
              /\ \A j \in 1..Len(tree.nodes[i].children) :
                    LET c == tree.nodes[i].children[j]
                    IN  /\ tree.nodes[c].level > tree.nodes[i].level
                        /\ c > i
                        /\ j > 1 => c > tree.nodes[i].children[j - 1]

C15_Witness ==
    /\ pc = "scan"
    /\ Len(tree.open) = 3
    /\ \E i \in 1..Len(tree.nodes) : Len(tree.nodes[i].children) = 2

\* The node whose children hold c, or 0 for a node of the root sequence.
TreeParent(t, c) ==
    IF \E i \in 1..Len(t.nodes) : InList(c, t.nodes[i].children)
    THEN CHOOSE i \in 1..Len(t.nodes) : InList(c, t.nodes[i].children)
    ELSE 0

\* The nearest heading before c with a smaller level, or 0.
NearestShallower(t, c) ==
    LET S == {j \in 1..(c - 1) : t.nodes[j].level < t.nodes[c].level}
    IN  IF S = {} THEN 0 ELSE Max(S)

\* The headings that follow node i before the next heading at i's own level
\* or shallower.
SpanOf(t, i) ==
    LET stop == Min({k \in (i + 1)..Len(t.nodes) :
                        t.nodes[k].level <= t.nodes[i].level}
                    \cup {Len(t.nodes) + 1})
    IN  (i + 1)..(stop - 1)

\* C16 as stated: the level of every direct child of a node equals the
\* minimum level among the headings that follow the node before the next
\* heading at the node's own level or shallower.
C16_ChildLevelIsMinimumOfSpan ==
    Parsed =>
        \A i \in 1..Len(tree.nodes) :
            \A j \in 1..Len(tree.nodes[i].children) :
                tree.nodes[tree.nodes[i].children[j]].level
                    = Min({tree.nodes[k].level : k \in SpanOf(tree, i)})

\* C16, amended: every direct child of a node is deeper than the node and its
\* level is the minimum level among the headings from the node up to that
\* child: the parent of a heading is the nearest earlier heading with a
\* smaller level, and a heading with none is a root.
C16_ChildLevelIsMinimumUpToChild ==
    Parsed =>
        /\ \A c \in 1..Len(tree.nodes) :
              /\ TreeParent(tree, c) = NearestShallower(tree, c)
              /\ TreeParent(tree, c) = 0 <=> InList(c, tree.roots)
        /\ \A i \in 1..Len(tree.nodes) :
              \A j \in 1..Len(tree.nodes[i].children) :
                  LET c == tree.nodes[i].children[j]
                  IN  /\ tree.nodes[c].level > tree.nodes[i].level
                      /\ tree.nodes[c].level
                             = Min({tree.nodes[k].level : k \in (i + 1)..c})

C16_Witness ==
    /\ Parsed
    /\ \E i \in 1..Len(tree.nodes) :
          /\ Len(tree.nodes[i].children) = 2
          /\ tree.nodes[tree.nodes[i].children[1]].level = 3
          /\ tree.nodes[tree.nodes[i].children[2]].level = 2

\* The titles of the headings whose nearest earlier shallower heading is r.
DirectChildTitles(t, r) ==
    LET C == {c \in 1..Len(t.nodes) : NearestShallower(t, c) = r}
        at(k) == CHOOSE c \in C : Cardinality({x \in C : x < c}) = k - 1
    IN  [k \in 1..Cardinality(C) |-> t.nodes[at(k)].title]

ExampleMap ==
    << [parent |-> Chars("Feature A"),
        children |-> <<Chars("Sub A1"), Chars("Sub A2")>>],
       [parent |-> Chars("Feature B"), children |-> <<>>] >>

\* C18: flatten maps the title of every root node to the ordered titles of
\* its direct children only: every root's title is a key, every key's value
\* is the direct children of a root with that title (of the root itself when
\* no other root shares its title), so no grandchild title is collected and
\* a childless root maps to the empty sequence; the example document gives
\* {"Feature A": ["Sub A1", "Sub A2"], "Feature B": []}.
C18_FlattenMapsRootsToDirectChildren ==
    Done("flatten") =>
        LET Roots == {r \in 1..Len(tree.nodes) : NearestShallower(tree, r) = 0}
        IN  /\ \A r \in Roots :
                  \E e \in 1..Len(feature_dict) :
                      /\ feature_dict[e].parent = tree.nodes[r].title
                      /\ (\A q \in Roots \ {r} :
                              tree.nodes[q].title # tree.nodes[r].title)
                             => feature_dict[e].children
                                    = DirectChildTitles(tree, r)
            /\ \A e \in 1..Len(feature_dict) :
                  /\ \E r \in Roots :
                        /\ feature_dict[e].parent = tree.nodes[r].title
                        /\ feature_dict[e].children = DirectChildTitles(tree, r)
                  /\ \A f \in 1..Len(feature_dict) :
                        feature_dict[f].parent = feature_dict[e].parent => f = e
            /\ content = ExampleDoc => feature_dict = ExampleMap

C18_Witness ==
    /\ Done("flatten")
    /\ \E i \in 1..Len(tree.nodes) :
          tree.nodes[i].level = 3 /\ NearestShallower(tree, i) > 1
    /\ feature_dict = << [parent |-> Chars("A"), children |-> <<Chars("B")>>],
                         [parent |-> Chars("D"), children |-> <<>>] >>

(***************************************************************************)
(* Claims about the bodies extract_sections records                        *)
(***************************************************************************)

\* The positions where a section titled title starts: 0 (for "main") is the
\* start of the document, h > 0 a line starting with '#'.
SectionStarts(lines, title) ==
    {h \in 0..Len(lines) :
        IF h = 0 THEN title = Chars("main")
        ELSE StartsWithHash(lines[h]) /\ SectionTitle(lines[h]) = title}

\* The lines after position h up to the next line starting with '#'.
LinesUnder(lines, h) ==
    SubSeq(lines, h + 1,
           Min({k \in (h + 1)..Len(lines) : StartsWithHash(lines[k])}
               \cup {Len(lines) + 1}) - 1)

\* C17 as stated: the body recorded for a heading never contains the literal
\* text of any heading line that follows that heading.
C17_BodyNeverContainsLaterHeadingText ==
    Done("extract_sections") =>
        LET lines == split(content)
        IN  \A e \in 1..Len(sections) :
                \A h \in SectionStarts(lines, sections[e].title) :
                    \A k \in (h + 1)..Len(lines) :
                        IsHeadingLine(lines[k])
                            => ~contains(sections[e].text, lines[k])

\* C17, amended: the body recorded for a heading is the trimmed text of the
\* lines between a heading of that title and the next line starting with
\* '#': no heading line is ever appended to a body, and a body ends at the
\* next heading line of any level.
C17_BodyIsTheLinesUpToTheNextHeading ==
    Done("extract_sections") =>
        LET lines == split(content)
        IN  \A e \in 1..Len(sections) :
                \E h \in SectionStarts(lines, sections[e].title) :
                    /\ LinesUnder(lines, h) # <<>>
                    /\ \A k \in 1..Len(LinesUnder(lines, h)) :
                          ~IsHeadingLine(LinesUnder(lines, h)[k])
                    /\ sections[e].text
                           = strip(join(<<NL>>, LinesUnder(lines, h)))

C17_Witness ==
    /\ Done("extract_sections")
    /\ content = join(<<NL>>, <<Chars("# Spec"), Chars("see # Spec"),
                                Chars("## Notes")>>)
    /\ sections = <<[title |-> Chars("Spec"), text |-> Chars("see # Spec")]>>

(***************************************************************************)
(* The web UI: one run of main() per interaction, st.session_state kept    *)
(* between the runs                                                        *)
(***************************************************************************)

FileSeparator == Chars("\n\n")

RequirementSeparator == Chars("\n\n---\n\n")

FromFile == Chars("## From file: ")

\* merge_requirements(text_requirement, uploaded_files)
merge_requirements(text_requirement, uploaded_files) ==
    LET file_contents ==
            [i \in 1..Len(uploaded_files) |->
                FromFile \o uploaded_files[i].name \o <<NL>>
                    \o uploaded_files[i].content]
        merged ==
            (IF text_requirement # <<>> /\ strip(text_requirement) # <<>>
             THEN <<strip(text_requirement)>> ELSE <<>>)
            \o (IF file_contents # <<>>
                THEN <<join(FileSeparator, file_contents)>> ELSE <<>>)
    IN  join(RequirementSeparator, merged)

\* not requirement_text.strip() and not uploaded_files
InputMissing(requirement_text, uploaded_files) ==
    strip(requirement_text) = <<>> /\ uploaded_files = <<>>

\* st.session_state.analysis_results before any analysis
NoAnalysis == [kind |-> "None"]

\* Most presses of the Analyze button in one session.
MaxClicks == 3

\* What the text area can hold, what the uploader can hold, and the API keys
\* of the sidebar field.
UITexts == {<<>>, Chars(" "), Chars("r ")}

UIUploads ==
    LET a == [name |-> Chars("a.md"), content |-> Chars("x")]
        b == [name |-> Chars("b.md"), content |-> Chars("y")]
    IN  {<<>>, <<a>>, <<a, b>>}

UIKeys == {<<>>, Chars("k")}

NoClick == [pressed |-> FALSE]

\* The stored result after a press that leaves an error behind forgets the
\* earlier analysis.
StoredAfter_ErrorClears(previous, message, results) ==
    IF message = "success" THEN results
    ELSE IF message = "analysis_error" THEN NoAnalysis
    ELSE previous

\* st.session_state.analysis_results after a press of the button: assigned
\* on line 239 only, after the analysis has returned.
StoredAfter(previous, message, results) ==
    IF message = "success" THEN results ELSE previous

\* The results panel (line 245) is rendered by a run that reaches the end of
\* main() with a stored result; a run that returns early renders none.
PanelAfter(stored, message) ==
    IF message \in {"no_input", "no_api_key"} THEN NoAnalysis ELSE stored

InitUI ==
    /\ session = [api_key          |-> <<>>,
                  analysis_results |-> NoAnalysis,
                  clicks           |-> 0,
                  constructed      |-> 0,
                  last             |-> NoClick,
                  message          |-> "none",
                  panel            |-> NoAnalysis]
    /\ pc = "idle"
    /\ op = "main"
    /\ content = <<>>
    /\ file_exists = TRUE
    /\ sections = <<>>
    /\ list_items = <<>>
    /\ requirements = <<>>
    /\ result = NoResult
    /\ files_opened = 0
    /\ agent_calls = <<>>
    /\ feature_dict = <<>>
    /\ all_estimates = <<>>
    /\ idx = <<0, 0>>
    /\ report = NoReport
    /\ tree = NoTree

UIFrame ==
    UNCHANGED <<content, file_exists, pc, op, sections, list_items,
                requirements, result, feature_dict, all_estimates, idx,
                report, tree>>

\* The run of a press with the API-key check made before the input check.
ClickAnalyze_KeyCheckFirst ==
    /\ session.clicks < MaxClicks
    /\ \E requirement_text \in UITexts, uploaded_files \in UIUploads,
          api_key \in UIKeys, llm \in AgentOutcomes :
          LET rejected  == InputMissing(requirement_text, uploaded_files)
                               \/ api_key = <<>>
              files_only == uploaded_files # <<>>
                               /\ strip(requirement_text) = <<>>
              text_only  == strip(requirement_text) # <<>>
                               /\ uploaded_files = <<>>
              \* files-only calls analyze_from_multiple_markdown, which
              \* SoftwareAnalystAgent does not define: AttributeError
              calls == IF rejected \/ files_only THEN <<>>
                       ELSE IF text_only
                       THEN <<[site |-> "ui", requirement |-> requirement_text]>>
                       ELSE <<[site |-> "ui",
                               requirement |->
                                   merge_requirements(requirement_text,
                                                      uploaded_files)]>>
              message ==
                  IF api_key = <<>> THEN "no_api_key"
                  ELSE IF InputMissing(requirement_text, uploaded_files)
                  THEN "no_input"
                  ELSE IF files_only \/ llm = "raised" THEN "analysis_error"
                  ELSE "success"
              results == [kind |-> "analysis",
                          call |-> Len(agent_calls) + Len(calls)]
              stored  == StoredAfter(session.analysis_results, message, results)
          IN  /\ agent_calls' = agent_calls \o calls
              /\ files_opened' =
                     files_opened + (IF rejected \/ text_only THEN 0
                                     ELSE Len(uploaded_files))
              /\ session' =
                     [api_key          |-> api_key,
                      analysis_results |-> stored,
                      clicks           |-> session.clicks + 1,
                      constructed      |-> session.constructed
                                               + (IF rejected THEN 0 ELSE 1),
                      last             |-> [pressed |-> TRUE,
                                            requirement_text |-> requirement_text,
                                            uploaded_files |-> uploaded_files,
                                            api_key |-> api_key,
                                            llm |-> llm],
                      message          |-> message,
                      panel            |-> PanelAfter(stored, message)]
    /\ UIFrame

\* A run of main() with the Analyze button pressed (lines 196-247); the
\* widgets hold requirement_text, uploaded_files and api_key, and llm is what
\* agent.run does if it is called.
ClickAnalyze ==
    /\ session.clicks < MaxClicks
    /\ \E requirement_text \in UITexts, uploaded_files \in UIUploads,
          api_key \in UIKeys, llm \in AgentOutcomes :
          LET rejected  == InputMissing(requirement_text, uploaded_files)
                               \/ api_key = <<>>
              files_only == uploaded_files # <<>>
                               /\ strip(requirement_text) = <<>>
              text_only  == strip(requirement_text) # <<>>
                               /\ uploaded_files = <<>>
              \* files-only calls analyze_from_multiple_markdown, which
              \* SoftwareAnalystAgent does not define: AttributeError
              calls == IF rejected \/ files_only THEN <<>>
                       ELSE IF text_only
                       THEN <<[site |-> "ui", requirement |-> requirement_text]>>
                       ELSE <<[site |-> "ui",
                               requirement |->
                                   merge_requirements(requirement_text,
                                                      uploaded_files)]>>
              message ==
                  IF InputMissing(requirement_text, uploaded_files)
                  THEN "no_input"
                  ELSE IF api_key = <<>> THEN "no_api_key"
                  ELSE IF files_only \/ llm = "raised" THEN "analysis_error"
                  ELSE "success"
              results == [kind |-> "analysis",
                          call |-> Len(agent_calls) + Len(calls)]
              stored  == StoredAfter(session.analysis_results, message, results)
          IN  /\ agent_calls' = agent_calls \o calls
              /\ files_opened' =
                     files_opened + (IF rejected \/ text_only THEN 0
                                     ELSE Len(uploaded_files))
              /\ session' =
                     [api_key          |-> api_key,
                      analysis_results |-> stored,
                      clicks           |-> session.clicks + 1,
                      constructed      |-> session.constructed
                                               + (IF rejected THEN 0 ELSE 1),
                      last             |-> [pressed |-> TRUE,
                                            requirement_text |-> requirement_text,
                                            uploaded_files |-> uploaded_files,
                                            api_key |-> api_key,
                                            llm |-> llm],
                      message          |-> message,
                      panel            |-> PanelAfter(stored, message)]
    /\ UIFrame

\* A run of main() without the button pressed (any other interaction).
Rerun ==
    /\ session' = [session EXCEPT
                      !.last    = NoClick,
                      !.message = "none",
                      !.panel   = session.analysis_results]
    /\ UNCHANGED <<agent_calls, files_opened>>
    /\ UIFrame

NextUI ==
    \/ ClickAnalyze
    \/ Rerun

SpecUI == InitUI /\ [][NextUI]_vars

(***************************************************************************)
(* Claims about the Analyze button                                         *)
(***************************************************************************)

\* The last run was a press with an API key and an accepted input, and the
\* LLM call succeeds when made.
AcceptedPress ==
    /\ op = "main"
    /\ session.last.pressed
    /\ session.last.api_key # <<>>
    /\ ~InputMissing(session.last.requirement_text, session.last.uploaded_files)
    /\ session.last.llm = "returned"

\* C19: with an API key set and the LLM call succeeding, a press of Analyze
\* with any accepted input (text only, files only, both) sends the
\* requirements to the analyst agent and stores its result in the session;
\* none ends in an error.
C19_AcceptedPressIsAnalysedAndStored ==
    AcceptedPress =>
        /\ session.message = "success"
        /\ agent_calls # <<>>
        /\ session.analysis_results
               = [kind |-> "analysis", call |-> Len(agent_calls)]

\* C20 as stated: the stored result changes only when an analysis completes
\* successfully; a rejected press or an analysis that raises leaves it
\* unchanged, and the results panel keeps showing it.
C20_StoredResultKeptAndShown ==
    [][ /\ session'.analysis_results # session.analysis_results
            => session'.message = "success"
        /\ (session'.last.pressed /\ session'.message # "success")
            => /\ session'.analysis_results = session.analysis_results
               /\ session'.panel = session.analysis_results ]_vars

\* C20, amended: the stored result changes only when an analysis completes
\* successfully; a rejected press or an analysis that raises leaves it
\* unchanged.  After an analysis that raises the panel still shows it; a
\* rejected press returns before the panel is rendered, and the next run
\* shows the stored result again.
C20_StoredResultKept ==
    [][ /\ session'.analysis_results # session.analysis_results
            => session'.message = "success"
        /\ (session'.last.pressed /\ session'.message # "success")
            => /\ session'.analysis_results = session.analysis_results
               /\ session'.panel
                      = IF session'.message = "analysis_error"
                        THEN session.analysis_results ELSE NoAnalysis
        /\ ~session'.last.pressed
            => session'.panel = session'.analysis_results ]_vars

C20_Witness ==
    /\ op = "main"
    /\ session.message = "no_input"
    /\ session.analysis_results.kind = "analysis"
    /\ session.panel = NoAnalysis

\* The run that just ended was a press rejected for its inputs: neither
\* non-blank text nor a file, or an empty API key.
RejectedPress(s) ==
    /\ s.last.pressed
    /\ \/ InputMissing(s.last.requirement_text, s.last.uploaded_files)
       \/ s.last.api_key = <<>>

\* C21: a press of Analyze with neither non-blank text nor an uploaded file,
\* or with an empty API key, neither constructs nor calls the analyst agent
\* and ends in an error message; the input check comes first, so a press
\* that fails both shows the input message.
C21_RejectedPressNeverReachesAgent ==
    [][ RejectedPress(session')
            => /\ session'.constructed = session.constructed
               /\ agent_calls' = agent_calls
               /\ session'.message
                      = IF InputMissing(session'.last.requirement_text,
                                        session'.last.uploaded_files)
                        THEN "no_input" ELSE "no_api_key" ]_vars

C21_Witness ==
    /\ op = "main"
    /\ session.message = "no_input"
    /\ session.last.pressed
    /\ session.last.api_key = <<>>
    /\ session.constructed = 1
    /\ Len(agent_calls) = 1

RECURSIVE ChildCount(_)
\* The child titles of a flattened map, all parents together.
ChildCount(d) ==
    IF d = <<>> THEN 0 ELSE Len(Head(d).children) + ChildCount(Tail(d))

\* C22: when estimate_from_markdown returns, the children list of every
\* parent's entry holds one estimate per child title of that parent in the
\* flattened map, in the map's order, each with parent_feature equal to that
\* parent and each from a call of its own made for that child; no estimate
\* sits in another parent's entry, and the agent has been called once per
\* parent and once per child title.
C22_ChildrenListsMirrorTheMap ==
    Done("estimate_from_markdown") =>
        /\ Len(agent_calls) = Len(feature_dict) + ChildCount(feature_dict)
        /\ Len(all_estimates) = Len(feature_dict)
        /\ \A i \in 1..Len(feature_dict) :
              LET parent   == feature_dict[i].parent
                  titles   == feature_dict[i].children
                  children == all_estimates[i].value.children
                  before   == Len(feature_dict)
                                  + ChildCount(SubSeq(feature_dict, 1, i - 1))
              IN  /\ all_estimates[i].key = parent
                  /\ Len(children) = Len(titles)
                  /\ \A j \in 1..Len(titles) :
                        /\ children[j].feature = titles[j]
                        /\ children[j].parent_feature = Some(parent)
                        /\ children[j].children = <<>>
                        /\ children[j].estimate.call = before + j
                        /\ agent_calls[before + j].site = "child"
                        /\ SubSeq(agent_calls[before + j].requirement, 1,
                                  Len(titles[j]) + Len(ContextLabel))
                               = titles[j] \o ContextLabel

C22_Witness ==
    /\ Done("estimate_from_markdown")
    /\ Len(feature_dict) = 2
    /\ feature_dict[1].children = <<ParentTitle(2), Chars("A1")>>
    /\ feature_dict[2].children = <<Chars("A1")>>
    /\ Len(all_estimates[1].value.children) = 2
    /\ Len(all_estimates[2].value.children) = 1

=============================================================================
